---- MODULE Spec2Model ----
(***************************************************************************)
(* A model of modules/Router.js: the route matcher (findMatches), the      *)
(* match diff and transition-hook pipeline of Router.prototype.dispatch    *)
(* (runTransitionFromHooks, runTransitionToHooks, runHooks) and the        *)
(* commit step Router.prototype.flipSwitch.                                *)
(*                                                                         *)
(* JavaScript runs one task to completion before the next one starts.  A   *)
(* task is modelled as a run of steps taken while `running` names the      *)
(* dispatch whose code is on the stack; every action that starts a task    *)
(* (a call to dispatch or flipSwitch, the settling of a promise, a promise *)
(* reaction, a timer) is enabled only while running = 0.                   *)
(***************************************************************************)
EXTENDS Integers, Sequences, FiniteSets, TLC

\* ------------------------------------------------------------------ bounds
MaxDispatches == 2
MaxPromises == 1
\* The longest routes list the matcher is called with directly.
MaxRoutes == 2

\* ------------------------------------------------------------ route tree
\* A value a params object has no key for, and the value undefined.
Absent == "absent"
Undef == "undefined"
ParamNames == {"a"}
NoRoute == "none"

Lit(s) == <<"lit", s>>
Par(n) == <<"par", n>>

\* The Route nodes handed to the Router (Route: path, paramNames, childRoutes,
\* defaultRoute, notFoundRoute, handler).  hasFrom / hasTo say whether the
\* route's handler defines willTransitionFrom / willTransitionTo.
RouteTable ==
  [ App  |-> [path |-> << >>, paramNames |-> << >>,
              childRoutes |-> <<"User">>, defaultRoute |-> NoRoute,
              notFoundRoute |-> NoRoute, hasFrom |-> FALSE, hasTo |-> FALSE],
    User |-> [path |-> <<Lit("u"), Par("a")>>, paramNames |-> <<"a">>,
              childRoutes |-> <<"Mid">>, defaultRoute |-> NoRoute,
              notFoundRoute |-> NoRoute, hasFrom |-> TRUE, hasTo |-> TRUE],
    Mid  |-> [path |-> <<Lit("m")>>, paramNames |-> << >>,
              childRoutes |-> <<"Leaf">>, defaultRoute |-> NoRoute,
              notFoundRoute |-> NoRoute, hasFrom |-> TRUE, hasTo |-> TRUE],
    Leaf |-> [path |-> <<Lit("u"), Par("a"), Lit("x")>>, paramNames |-> <<"a">>,
              childRoutes |-> << >>, defaultRoute |-> NoRoute,
              notFoundRoute |-> NoRoute, hasFrom |-> FALSE, hasTo |-> FALSE],
    Posts |-> [path |-> <<Lit("p"), Par("a")>>, paramNames |-> <<"a">>,
              childRoutes |-> <<"Post">>, defaultRoute |-> "PostsDefault",
              notFoundRoute |-> "PostsNotFound", hasFrom |-> FALSE, hasTo |-> FALSE],
    Post |-> [path |-> <<Lit("p"), Lit("2")>>, paramNames |-> << >>,
              childRoutes |-> << >>, defaultRoute |-> NoRoute,
              notFoundRoute |-> NoRoute, hasFrom |-> FALSE, hasTo |-> FALSE],
    PostsDefault |-> [path |-> <<Lit("p"), Lit("1")>>, paramNames |-> << >>,
              childRoutes |-> << >>, defaultRoute |-> NoRoute,
              notFoundRoute |-> NoRoute, hasFrom |-> FALSE, hasTo |-> FALSE],
    PostsNotFound |-> [path |-> <<Lit("p"), Par("a")>>, paramNames |-> <<"a">>,
              childRoutes |-> << >>, defaultRoute |-> NoRoute,
              notFoundRoute |-> NoRoute, hasFrom |-> FALSE, hasTo |-> FALSE],
    Inbox |-> [path |-> <<Lit("q"), Par("a")>>, paramNames |-> <<"a">>,
              childRoutes |-> <<"Message">>, defaultRoute |-> NoRoute,
              notFoundRoute |-> NoRoute, hasFrom |-> FALSE, hasTo |-> FALSE],
    Message |-> [path |-> <<Lit("q"), Lit("1")>>, paramNames |-> << >>,
              childRoutes |-> << >>, defaultRoute |-> NoRoute,
              notFoundRoute |-> NoRoute, hasFrom |-> FALSE, hasTo |-> FALSE] ]

\* this.routes, this.defaultRoute, this.notFoundRoute of the Router.
RouterRoutes == <<"App">>
RouterDefaultRoute == NoRoute
RouterNotFoundRoute == NoRoute

\* ----------------------------------------------------------------- paths
NoQuery == << >>
\* The paths dispatch is called with: path segments and a raw query string.
Paths ==
  { [segs |-> <<"u", "1", "x">>, q |-> NoQuery],
    [segs |-> <<"u", "2", "x">>, q |-> NoQuery],
    [segs |-> <<"u", "1">>, q |-> <<"k", "v">>],
    [segs |-> <<"zzz">>, q |-> NoQuery] }

\* Path.withoutQuery
withoutQuery(path) == path.segs

\* Path.extractQuery: null (found = FALSE) when the path has no query.
extractQuery(path) ==
  IF path.q = NoQuery THEN [found |-> FALSE, map |-> {}]
  ELSE [found |-> TRUE, map |-> {<<path.q[1], path.q[2]>>}]

NoParams == [n \in ParamNames |-> Absent]

\* Path.extractParams(pattern, path): the params the pattern extracts, or null.
extractParams(pattern, segs) ==
  IF /\ Len(pattern) = Len(segs)
     /\ \A i \in 1..Len(pattern) : pattern[i][1] = "lit" => pattern[i][2] = segs[i]
  THEN [ok |-> TRUE,
        params |-> [n \in ParamNames |->
                      IF \E i \in 1..Len(pattern) : pattern[i] = Par(n)
                      THEN segs[CHOOSE i \in 1..Len(pattern) : pattern[i] = Par(n)]
                      ELSE Absent]]
  ELSE [ok |-> FALSE, params |-> NoParams]

\* obj[name] of JavaScript: undefined for a key the object does not have.
Get(params, n) == IF params[n] = Absent THEN Undef ELSE params[n]

\* new Match(route, params)
Match(route, params) == [route |-> route, params |-> params]

\* ----------------------------------------------------------------- matcher
getRootMatch(matches) == matches[Len(matches)]

NullChain == [found |-> FALSE, chain |-> << >>]
Found(chain) == [found |-> TRUE, chain |-> chain]

\* Mutant of reduceParams: the ancestor's match is given the params of the
\* deepest match as they are.
reduceParamsAll(route, rootParams) == rootParams

\* The params findMatches gives an ancestor route: one key per declared
\* paramName, its value read from rootParams.
reduceParams(route, rootParams) ==
  [n \in ParamNames |->
     IF \E k \in 1..Len(RouteTable[route].paramNames) : RouteTable[route].paramNames[k] = n
     THEN Get(rootParams, n)
     ELSE Absent]

\* Mutant of tryFallbacks: the not-found route is tried before the default route.
tryFallbacksNotFoundFirst(segs, defaultRoute, notFoundRoute) ==
  IF notFoundRoute # NoRoute /\ extractParams(RouteTable[notFoundRoute].path, segs).ok
  THEN Found(<<Match(notFoundRoute, extractParams(RouteTable[notFoundRoute].path, segs).params)>>)
  ELSE IF defaultRoute # NoRoute /\ extractParams(RouteTable[defaultRoute].path, segs).ok
  THEN Found(<<Match(defaultRoute, extractParams(RouteTable[defaultRoute].path, segs).params)>>)
  ELSE NullChain

\* The two fallbacks tried after the loop over routes.
tryFallbacks(segs, defaultRoute, notFoundRoute) ==
  IF defaultRoute # NoRoute /\ extractParams(RouteTable[defaultRoute].path, segs).ok
  THEN Found(<<Match(defaultRoute, extractParams(RouteTable[defaultRoute].path, segs).params)>>)
  ELSE IF notFoundRoute # NoRoute /\ extractParams(RouteTable[notFoundRoute].path, segs).ok
  THEN Found(<<Match(notFoundRoute, extractParams(RouteTable[notFoundRoute].path, segs).params)>>)
  ELSE NullChain

RECURSIVE findMatchesOwnFirst(_, _, _, _, _)
\* Mutant of findMatchesFrom: the route's own pattern is tried before its subtree.
findMatchesOwnFirst(segs, routes, i, defaultRoute, notFoundRoute) ==
  IF i > Len(routes) THEN tryFallbacks(segs, defaultRoute, notFoundRoute)
  ELSE
    LET route == routes[i]
        r == RouteTable[route]
        sub == findMatchesOwnFirst(segs, r.childRoutes, 1, r.defaultRoute, r.notFoundRoute)
        own == extractParams(r.path, segs)
    IN  IF own.ok THEN Found(<<Match(route, own.params)>>)
        ELSE IF sub.found
        THEN Found(<<Match(route, reduceParams(route, getRootMatch(sub.chain).params))>>
                   \o sub.chain)
        ELSE findMatchesOwnFirst(segs, routes, i + 1, defaultRoute, notFoundRoute)

RECURSIVE findMatchesFrom(_, _, _, _, _)
\* findMatches with its loop at index i.
findMatchesFrom(segs, routes, i, defaultRoute, notFoundRoute) ==
  IF i > Len(routes) THEN tryFallbacks(segs, defaultRoute, notFoundRoute)
  ELSE
    LET route == routes[i]
        r == RouteTable[route]
        sub == findMatchesFrom(segs, r.childRoutes, 1, r.defaultRoute, r.notFoundRoute)
        own == extractParams(r.path, segs)
    IN  IF sub.found
        THEN Found(<<Match(route, reduceParams(route, getRootMatch(sub.chain).params))>>
                   \o sub.chain)
        ELSE IF own.ok THEN Found(<<Match(route, own.params)>>)
        ELSE findMatchesFrom(segs, routes, i + 1, defaultRoute, notFoundRoute)

findMatches(segs, routes, defaultRoute, notFoundRoute) ==
  findMatchesFrom(segs, routes, 1, defaultRoute, notFoundRoute)

\* Router.prototype.match
match(path) ==
  findMatches(withoutQuery(path), RouterRoutes, RouterDefaultRoute, RouterNotFoundRoute)

\* hasMatch(matches, match)
hasMatch(matches, m2) ==
  \E k \in 1..Len(matches) :
    /\ matches[k].route = m2.route
    /\ \A n \in ParamNames :
         matches[k].params[n] # Absent => Get(matches[k].params, n) = Get(m2.params, n)

\* The arguments findMatches is called with directly: the path without its
\* query, a routes list of up to MaxRoutes routes, and the two fallbacks.  A
\* fallback is a route without children.
MatchSegs ==
  { <<"p", "1">>, <<"p", "2">>, <<"p", "3">>, <<"q", "1">>, <<"q", "2">>,
    <<"u", "1">>, <<"u", "1", "x">>, <<"zzz">> }
MatchRoots == {"App", "User", "Leaf", "Posts", "Post", "Inbox"}
MatchFallbacks == {NoRoute, "PostsDefault", "PostsNotFound", "Message"}
RoutesLists == UNION { [1..n -> MatchRoots] : n \in 0..MaxRoutes }
MatchInputs ==
  [segs : MatchSegs, routes : RoutesLists,
   defaultRoute : MatchFallbacks, notFoundRoute : MatchFallbacks]
NoInput == [segs |-> << >>, routes |-> << >>, defaultRoute |-> NoRoute,
            notFoundRoute |-> NoRoute]
NotCalled == [called |-> FALSE, found |-> FALSE, chain |-> << >>]

\* ------------------------------------------------------------ transition
\* abortReason of a new Transition, and of abort() called without a reason.
Unset == [kind |-> "unset", to |-> ""]
\* The reasons a hook aborts with: the redirect descriptor {to: "posts"}; dispatch
\* hands any other value to the callback in the same way.
Reasons == { [kind |-> "redirect", to |-> "posts"] }
AbortArgs == Reasons \cup {Unset}

NoError == "none"
ThrownError == "err"
RejectedError == "rej"

\* What one invocation of a handler's willTransitionFrom / willTransitionTo
\* does: nothing, transition.abort(reason), transition.wait(promise), return
\* a promise (its value is used by the leaving phase only), or throw.
Effect(kind, reason) == [kind |-> kind, reason |-> reason]
NoEffect == Effect("none", Unset)
FromEffects ==
  { Effect(k, Unset) : k \in {"none", "wait", "return", "throw"} }
    \cup { Effect("abort", r) : r \in AbortArgs }
ToEffects ==
  { Effect(k, Unset) : k \in {"none", "wait", "throw"} }
    \cup { Effect("abort", r) : r \in AbortArgs }

\* ------------------------------------------------------------------ state
VARIABLES
  state,       \* router.state: the committed Resolved State
  nextState,   \* router._nextState: the pending Resolved State
  dispatches,  \* one record per call of dispatch: its closure and Transition
  promises,    \* the state of every promise a hook created
  running,     \* the dispatch whose code is on the stack, 0 when none is
  storedBy,    \* history: the dispatch that assigned _nextState last
  committedBy, \* history: the dispatch whose pending state was committed last
  matchInput,  \* the arguments of a direct call of findMatches
  matchOutput  \* what that call returned

matcherVars == <<matchInput, matchOutput>>
vars == <<state, nextState, dispatches, promises, running, storedBy, committedBy,
          matchInput, matchOutput>>

NoPath == [segs |-> << >>, q |-> NoQuery]
Resolved(kind, matches, path, routes, params, query) ==
  [kind |-> kind, matches |-> matches, path |-> path, routes |-> routes,
   params |-> params, query |-> query]
\* this.state = {} of the constructor.
EmptyState == Resolved("empty", << >>, NoPath, << >>, NoParams, {})
\* A deleted _nextState, and a state assigned from it.
UnsetState == Resolved("unset", << >>, NoPath, << >>, NoParams, {})
UndefinedState == Resolved("undefined", << >>, NoPath, << >>, NoParams, {})

Reverse(s) == [k \in 1..Len(s) |-> s[Len(s) + 1 - k]]
RECURSIVE notIn(_, _, _)
\* matches.filter(function (match) { return !hasMatch(others, match); }), from
\* index k on.
notIn(matches, others, k) ==
  IF k > Len(matches) THEN << >>
  ELSE IF ~hasMatch(others, matches[k])
  THEN <<matches[k]>> \o notIn(matches, others, k + 1)
  ELSE notIn(matches, others, k + 1)

\* fromMatches and toMatches of dispatch.
fromMatchesOf(currentMatches, nextMatches) ==
  IF Len(currentMatches) # 0 THEN notIn(currentMatches, nextMatches, 1) ELSE << >>
toMatchesOf(currentMatches, nextMatches) ==
  IF Len(currentMatches) # 0 THEN notIn(nextMatches, currentMatches, 1) ELSE nextMatches

\* The chain dispatch stores on success.
finalMatches(currentMatches, fromMatches, toMatches) ==
  SubSeq(currentMatches, 1, Len(currentMatches) - Len(fromMatches)) \o toMatches

\* Mutant of nextStateOf: path and query are read from the dispatch issued last
\* instead of this call's own closure.
nextStateOfLatest(r) ==
  LET matches == finalMatches(r.currentMatches, r.fromMatches, r.toMatches)
      params == IF Len(matches) = 0 THEN NoParams ELSE getRootMatch(matches).params
      routes == [k \in 1..Len(matches) |-> matches[k].route]
      latest == dispatches[Len(dispatches)]
  IN Resolved("resolved", matches, latest.path, routes, params, latest.query)

\* Mutant of nextStateOf: params are those of the first match of the chain.
nextStateOfOutermost(r) ==
  LET matches == finalMatches(r.currentMatches, r.fromMatches, r.toMatches)
      params == IF Len(matches) = 0 THEN NoParams ELSE matches[1].params
      routes == [k \in 1..Len(matches) |-> matches[k].route]
  IN Resolved("resolved", matches, r.path, routes, params, r.query)

\* The object dispatch assigns to router._nextState.
nextStateOf(r) ==
  LET matches == finalMatches(r.currentMatches, r.fromMatches, r.toMatches)
      params == IF Len(matches) = 0 THEN NoParams ELSE getRootMatch(matches).params
      routes == [k \in 1..Len(matches) |-> matches[k].route]
  IN Resolved("resolved", matches, r.path, routes, params, r.query)

\* The closure of one call of dispatch, its Transition and where it stands.
NewDispatch(path, currentMatches) ==
  LET nextMatches == match(path).chain
      q == extractQuery(path)
  IN [ path |-> path,
       currentMatches |-> currentMatches,
       nextMatches |-> nextMatches,
       fromMatches |-> fromMatchesOf(currentMatches, nextMatches),
       toMatches |-> toMatchesOf(currentMatches, nextMatches),
       query |-> IF q.found THEN q.map ELSE {},
       isAborted |-> FALSE, abortReason |-> Unset, promise |-> 0,
       pc |-> "hooks", phase |-> "from", i |-> 1, awaiting |-> 0, error |-> NoError,
       inline |-> TRUE,
       cbCount |-> 0, cbError |-> NoError, cbAbort |-> Unset, cbInline |-> FALSE,
       outcome |-> "pending", stored |-> FALSE,
       startState |-> state, flipped |-> FALSE,
       log |-> << >> ]

\* Mutant of hooksOf: the leaving hooks are built without reversedArray.
hooksOfUnreversed(r) == IF r.phase = "from" THEN r.fromMatches ELSE r.toMatches

\* The hooks array of the phase r is in: the leaving matches reversed, or the
\* entering matches.
hooksOf(r) == IF r.phase = "from" THEN Reverse(r.fromMatches) ELSE r.toMatches

\* Mutant of handlerRuns: the hook does not test transition.isAborted.
handlerRunsAfterAbort(r) ==
  IF r.phase = "from" THEN RouteTable[hooksOf(r)[r.i].route].hasFrom
                      ELSE RouteTable[hooksOf(r)[r.i].route].hasTo

handlerRuns(r) ==
  /\ ~r.isAborted
  /\ IF r.phase = "from" THEN RouteTable[hooksOf(r)[r.i].route].hasFrom
                         ELSE RouteTable[hooksOf(r)[r.i].route].hasTo

\* The Transition after the handler's effect; p is the promise it creates.
applyEffect(r, eff, p) ==
  LET entry == [phase |-> r.phase, k |-> r.i, route |-> hooksOf(r)[r.i].route,
                eff |-> eff.kind, reason |-> eff.reason,
                p |-> IF eff.kind \in {"wait", "return"} THEN p ELSE 0]
      logged == [r EXCEPT !.log = Append(@, entry)]
  IN CASE eff.kind = "abort" -> [logged EXCEPT !.isAborted = TRUE, !.abortReason = eff.reason]
       [] eff.kind = "wait" -> [logged EXCEPT !.promise = p]
       [] OTHER -> logged

\* The hook function of runTransitionFromHooks: the record after it, what it
\* returns (a promise, or 0 for undefined) and whether it threw.
fromHook(r, eff, p) ==
  IF handlerRuns(r)
  THEN [rec |-> applyEffect(r, eff, p),
        ret |-> IF eff.kind = "return" THEN p ELSE 0,
        threw |-> eff.kind = "throw"]
  ELSE [rec |-> [r EXCEPT !.promise = 0], ret |-> r.promise, threw |-> FALSE]

\* The hook function of runTransitionToHooks.
toHook(r, eff, p) ==
  LET after == IF handlerRuns(r) THEN applyEffect(r, eff, p) ELSE r
  IN IF handlerRuns(r) /\ eff.kind = "throw"
     THEN [rec |-> after, ret |-> 0, threw |-> TRUE]
     ELSE [rec |-> [after EXCEPT !.promise = 0], ret |-> after.promise, threw |-> FALSE]

hook(r, eff, p) == IF r.phase = "from" THEN fromHook(r, eff, p) ELSE toHook(r, eff, p)

\* The effects a hook invocation is drawn from.
EffectsOf(r) ==
  IF ~handlerRuns(r) THEN {NoEffect}
  ELSE { e \in (IF r.phase = "from" THEN FromEffects ELSE ToEffects) :
           e.kind \in {"wait", "return"} => Len(promises) < MaxPromises }

\* The dispatch callback is called with (error, abortReason).
called(r, error, abortReason, outcome) ==
  [r EXCEPT !.pc = "done", !.cbCount = @ + 1, !.cbError = error,
            !.cbAbort = abortReason, !.cbInline = r.inline, !.outcome = outcome]

\* --------------------------------------------------------------- actions
Init ==
  /\ state = EmptyState
  /\ nextState = UnsetState
  /\ dispatches = << >>
  /\ promises = << >>
  /\ running = 0
  /\ storedBy = 0
  /\ committedBy = 0
  /\ matchInput = NoInput
  /\ matchOutput = NotCalled

Fulfilled(p) == IF p = 0 THEN TRUE ELSE promises[p] = "resolved"

\* Mutant of Callback: the callbacks test error alone, not transition.isAborted.
CallbackIgnoresAbort(d, r, error) ==
  IF error # NoError
  THEN /\ dispatches' = [dispatches EXCEPT ![d] = called(r, error, r.abortReason, "errored")]
       /\ running' = 0
       /\ UNCHANGED <<state, nextState, storedBy>>
  ELSE IF r.phase = "from"
  THEN /\ dispatches' = [dispatches EXCEPT ![d] =
            [r EXCEPT !.pc = "hooks", !.phase = "to", !.i = 1, !.awaiting = 0,
                      !.error = NoError]]
       /\ running' = d
       /\ UNCHANGED <<state, nextState, storedBy>>
  ELSE /\ nextState' = nextStateOf(r)
       /\ state' = state
       /\ storedBy' = d
       /\ dispatches' = [dispatches EXCEPT ![d] =
            called([r EXCEPT !.stored = TRUE], NoError, Unset, "completed")]
       /\ running' = 0

\* Mutant of Callback: a successful dispatch assigns router.state itself.
CallbackCommits(d, r, error) ==
  IF error # NoError \/ r.isAborted
  THEN /\ dispatches' = [dispatches EXCEPT ![d] =
            called(r, error, r.abortReason, IF error # NoError THEN "errored" ELSE "aborted")]
       /\ running' = 0
       /\ UNCHANGED <<state, nextState, storedBy>>
  ELSE IF r.phase = "from"
  THEN /\ dispatches' = [dispatches EXCEPT ![d] =
            [r EXCEPT !.pc = "hooks", !.phase = "to", !.i = 1, !.awaiting = 0,
                      !.error = NoError]]
       /\ running' = d
       /\ UNCHANGED <<state, nextState, storedBy>>
  ELSE /\ nextState' = nextStateOf(r)
       /\ state' = nextStateOf(r)
       /\ storedBy' = d
       /\ dispatches' = [dispatches EXCEPT ![d] =
            called([r EXCEPT !.stored = TRUE], NoError, Unset, "completed")]
       /\ running' = 0

\* The function dispatch passes to runTransitionFromHooks, and the one it passes
\* to runTransitionToHooks, called with error by runHooks for dispatch d.
Callback(d, r, error) ==
  IF error # NoError \/ r.isAborted
  THEN /\ dispatches' = [dispatches EXCEPT ![d] =
            called(r, error, r.abortReason, IF error # NoError THEN "errored" ELSE "aborted")]
       /\ running' = 0
       /\ UNCHANGED <<state, nextState, storedBy>>
  ELSE IF r.phase = "from"
  THEN /\ dispatches' = [dispatches EXCEPT ![d] =
            [r EXCEPT !.pc = "hooks", !.phase = "to", !.i = 1, !.awaiting = 0,
                      !.error = NoError]]
       /\ running' = d
       /\ UNCHANGED <<state, nextState, storedBy>>
  ELSE /\ nextState' = nextStateOf(r)
       /\ state' = state
       /\ storedBy' = d
       /\ dispatches' = [dispatches EXCEPT ![d] =
            called([r EXCEPT !.stored = TRUE], NoError, Unset, "completed")]
       /\ running' = 0

\* A call of router.dispatch(path, callback), up to its first hook.
Dispatch(path) ==
  /\ running = 0
  /\ Len(dispatches) < MaxDispatches
  /\ state.kind # "undefined"
  /\ dispatches' = Append(dispatches, NewDispatch(path, state.matches))
  /\ running' = Len(dispatches) + 1
  /\ UNCHANGED <<state, nextState, promises, storedBy, committedBy>>
  /\ UNCHANGED matcherVars

\* dispatch called after a commit left router.state undefined: reading
\* this.state.matches throws a TypeError out of dispatch, before the path is
\* matched and before any hook; the callback is dropped with the call.
DispatchThrows(path) ==
  /\ running = 0
  /\ Len(dispatches) < MaxDispatches
  /\ state.kind = "undefined"
  /\ dispatches' = Append(dispatches,
       [NewDispatch(path, << >>) EXCEPT !.nextMatches = << >>, !.toMatches = << >>,
                                       !.query = {}, !.pc = "thrown", !.outcome = "threw"])
  /\ UNCHANGED <<state, nextState, promises, running, storedBy, committedBy>>
  /\ UNCHANGED matcherVars

\* runHooks before any hook returned a promise: reduce calls the next hook
\* directly; a throw is caught and handed to the callback at once.
SyncHook(d) ==
  /\ running = d
  /\ dispatches[d].pc = "hooks"
  /\ dispatches[d].i <= Len(hooksOf(dispatches[d]))
  /\ \E eff \in EffectsOf(dispatches[d]) :
       LET r == dispatches[d]
           p == Len(promises) + 1
           h == hook(r, eff, p)
       IN /\ promises' = IF handlerRuns(r) /\ eff.kind \in {"wait", "return"}
                         THEN Append(promises, "pending") ELSE promises
          /\ IF h.threw
             THEN Callback(d, h.rec, ThrownError)
             ELSE IF h.ret # 0
             THEN /\ dispatches' = [dispatches EXCEPT ![d] =
                       [h.rec EXCEPT !.pc = "await", !.awaiting = h.ret, !.i = @ + 1,
                                     !.inline = FALSE]]
                  /\ running' = 0
                  /\ UNCHANGED <<state, nextState, storedBy>>
             ELSE /\ dispatches' = [dispatches EXCEPT ![d] = [h.rec EXCEPT !.i = @ + 1]]
                  /\ UNCHANGED <<state, running, nextState, storedBy>>
  /\ UNCHANGED committedBy
  /\ UNCHANGED matcherVars

\* Mutant of SyncEnd: runHooks defers callback() with setTimeout even when no
\* hook returned a promise.
SyncEndDeferred(d) ==
  /\ running = d
  /\ dispatches[d].pc = "hooks"
  /\ dispatches[d].i > Len(hooksOf(dispatches[d]))
  /\ dispatches' = [dispatches EXCEPT ![d] =
       [@ EXCEPT !.pc = "timer", !.error = NoError, !.inline = FALSE]]
  /\ running' = 0
  /\ UNCHANGED <<state, nextState, promises, storedBy, committedBy>>
  /\ UNCHANGED matcherVars

\* runHooks when no hook returned a promise: callback() is called directly.
SyncEnd(d) ==
  /\ running = d
  /\ dispatches[d].pc = "hooks"
  /\ dispatches[d].i > Len(hooksOf(dispatches[d]))
  /\ Callback(d, dispatches[d], NoError)
  /\ UNCHANGED <<promises, committedBy>>
  /\ UNCHANGED matcherVars

\* A promise a hook created is resolved or rejected.
Settle(p, outcome) ==
  /\ running = 0
  /\ p \in 1..Len(promises)
  /\ promises[p] = "pending"
  /\ promises' = [promises EXCEPT ![p] = outcome]
  /\ UNCHANGED <<state, nextState, dispatches, running, storedBy, committedBy>>
  /\ UNCHANGED matcherVars

\* promise.then(hook): the next hook runs once the chain's promise is fulfilled;
\* a throw rejects the chain.
ThenHook(d) ==
  /\ running = 0
  /\ d \in 1..Len(dispatches)
  /\ dispatches[d].pc = "await"
  /\ dispatches[d].i <= Len(hooksOf(dispatches[d]))
  /\ Fulfilled(dispatches[d].awaiting)
  /\ \E eff \in EffectsOf(dispatches[d]) :
       LET r == dispatches[d]
           p == Len(promises) + 1
           h == hook(r, eff, p)
       IN /\ promises' = IF handlerRuns(r) /\ eff.kind \in {"wait", "return"}
                         THEN Append(promises, "pending") ELSE promises
          /\ dispatches' = [dispatches EXCEPT ![d] =
               IF h.threw
               THEN [h.rec EXCEPT !.pc = "timer", !.error = ThrownError]
               ELSE [h.rec EXCEPT !.awaiting = h.ret, !.i = @ + 1]]
  /\ UNCHANGED <<state, nextState, running, storedBy, committedBy>>
  /\ UNCHANGED matcherVars

\* The chain's promise is rejected: the hooks still chained are passed over and
\* the rejection handler of runHooks schedules callback(error).
ThenRejected(d) ==
  /\ running = 0
  /\ d \in 1..Len(dispatches)
  /\ dispatches[d].pc = "await"
  /\ dispatches[d].awaiting # 0
  /\ promises[dispatches[d].awaiting] = "rejected"
  /\ dispatches' = [dispatches EXCEPT ![d] =
       [@ EXCEPT !.pc = "timer", !.error = RejectedError]]
  /\ UNCHANGED <<state, nextState, promises, running, storedBy, committedBy>>
  /\ UNCHANGED matcherVars

\* The chain is fulfilled after its last hook: setTimeout(callback).
ThenEnd(d) ==
  /\ running = 0
  /\ d \in 1..Len(dispatches)
  /\ dispatches[d].pc = "await"
  /\ dispatches[d].i > Len(hooksOf(dispatches[d]))
  /\ Fulfilled(dispatches[d].awaiting)
  /\ dispatches' = [dispatches EXCEPT ![d] = [@ EXCEPT !.pc = "timer", !.error = NoError]]
  /\ UNCHANGED <<state, nextState, promises, running, storedBy, committedBy>>
  /\ UNCHANGED matcherVars

\* The timer runHooks set fires and calls callback(error).
Timer(d) ==
  /\ running = 0
  /\ d \in 1..Len(dispatches)
  /\ dispatches[d].pc = "timer"
  /\ Callback(d, dispatches[d], dispatches[d].error)
  /\ UNCHANGED <<promises, committedBy>>
  /\ UNCHANGED matcherVars

\* Router.prototype.flipSwitch
flipSwitch ==
  /\ running = 0
  /\ state' = IF nextState.kind = "unset" THEN UndefinedState ELSE nextState
  /\ nextState' = UnsetState
  /\ committedBy' = IF nextState.kind = "unset" THEN 0 ELSE storedBy
  /\ storedBy' = 0
  /\ dispatches' = [d \in 1..Len(dispatches) |-> [dispatches[d] EXCEPT !.flipped = TRUE]]
  /\ UNCHANGED <<promises, running>>
  /\ UNCHANGED matcherVars

Next ==
  \/ \E path \in Paths : Dispatch(path)
  \/ \E path \in Paths : DispatchThrows(path)
  \/ \E d \in 1..MaxDispatches : SyncHook(d)
  \/ \E d \in 1..MaxDispatches : SyncEnd(d)
  \/ \E p \in 1..MaxPromises : \E outcome \in {"resolved", "rejected"} : Settle(p, outcome)
  \/ \E d \in 1..MaxDispatches : ThenHook(d)
  \/ \E d \in 1..MaxDispatches : ThenRejected(d)
  \/ \E d \in 1..MaxDispatches : ThenEnd(d)
  \/ \E d \in 1..MaxDispatches : Timer(d)
  \/ flipSwitch

Spec == Init /\ [][Next]_vars

\* The run loop of JavaScript runs every task that is ready: the code on the
\* stack runs on to its end, and a promise reaction or timer that is due is
\* run.  Every promise a hook created is settled in the end.
Fairness ==
  /\ \A d \in 1..MaxDispatches :
       WF_vars(SyncHook(d) \/ SyncEnd(d) \/ ThenHook(d) \/ ThenRejected(d)
                 \/ ThenEnd(d) \/ Timer(d))
  /\ \A p \in 1..MaxPromises :
       WF_vars(\E outcome \in {"resolved", "rejected"} : Settle(p, outcome))

FairSpec == Init /\ [][Next]_vars /\ Fairness

\* ---------------------------------------------------- the matcher on its own
\* findMatches called directly with arguments drawn from MatchInputs.
MatcherInit ==
  /\ state = EmptyState
  /\ nextState = UnsetState
  /\ dispatches = << >>
  /\ promises = << >>
  /\ running = 0
  /\ storedBy = 0
  /\ committedBy = 0
  /\ matchInput \in MatchInputs
  /\ matchOutput = NotCalled

CallFindMatches ==
  /\ ~matchOutput.called
  /\ matchOutput' =
       LET found == findMatches(matchInput.segs, matchInput.routes,
                                matchInput.defaultRoute, matchInput.notFoundRoute)
       IN [called |-> TRUE, found |-> found.found, chain |-> found.chain]
  /\ UNCHANGED <<state, nextState, dispatches, promises, running, storedBy,
                 committedBy, matchInput>>

MatcherNext == CallFindMatches

MatcherSpec == MatcherInit /\ [][MatcherNext]_vars

\* ---------------------------------------------------------------- claims
D == 1..Len(dispatches)
Entries(r, phase) == { j \in 1..Len(r.log) : r.log[j].phase = phase }
Waited(r) == \E j \in 1..Len(r.log) : r.log[j].p # 0

\* C1: once a hook has aborted the transition, no later handler hook of either
\* phase is invoked in that dispatch, and when the callback has run with no
\* commit since the dispatch began the committed state is the one it began with.
C1_AbortHalts ==
  \A d \in D :
    LET r == dispatches[d]
    IN /\ \A j \in 1..Len(r.log) : r.log[j].eff = "abort" => j = Len(r.log)
       /\ (r.pc = "done" /\ r.isAborted /\ ~r.flipped) => state = r.startState

\* A leaving hook aborted while a shallower leaving handler and the entering
\* handlers were still to come; the callback has run.
C1_Witness ==
  \E d \in D :
    LET r == dispatches[d]
    IN /\ r.pc = "done" /\ r.isAborted /\ ~r.flipped
       /\ r.startState.kind = "resolved"
       /\ Len(r.log) = 1 /\ r.log[1].phase = "from" /\ r.log[1].eff = "abort"
       /\ \E k \in (r.log[1].k + 1)..Len(r.fromMatches) :
            RouteTable[Reverse(r.fromMatches)[k].route].hasFrom

\* C2: the leaving handlers are invoked deepest match first, the entering
\* handlers root first, one per match whose handler has the hook and none twice:
\* the handlers invoked are a prefix of that order (the whole of it when the
\* dispatch completes), all leaving ones before any entering one.
RoutesOf(log) == [j \in 1..Len(log) |-> log[j].route]
IsPrefix(s, t) == Len(s) <= Len(t) /\ \A k \in 1..Len(s) : s[k] = t[k]
LeavingOrder(r) ==
  LET deepestFirst == [k \in 1..Len(r.fromMatches) |->
                         r.fromMatches[Len(r.fromMatches) + 1 - k].route]
      has(route) == RouteTable[route].hasFrom
  IN SelectSeq(deepestFirst, has)
EnteringOrder(r) ==
  LET rootFirst == [k \in 1..Len(r.toMatches) |-> r.toMatches[k].route]
      has(route) == RouteTable[route].hasTo
  IN SelectSeq(rootFirst, has)

C2_HookOrder ==
  \A d \in D :
    LET r == dispatches[d]
        isFrom(e) == e.phase = "from"
        isTo(e) == e.phase = "to"
        left == RoutesOf(SelectSeq(r.log, isFrom))
        entered == RoutesOf(SelectSeq(r.log, isTo))
    IN /\ IsPrefix(left, LeavingOrder(r))
       /\ IsPrefix(entered, EnteringOrder(r))
       /\ \A j1, j2 \in 1..Len(r.log) :
            (j1 < j2 /\ r.log[j1].phase = "to") => r.log[j2].phase = "to"
       /\ r.outcome = "completed" =>
            (left = LeavingOrder(r) /\ entered = EnteringOrder(r))

\* One completed dispatch invoked two leaving handlers, one invoked two entering
\* handlers.
C2_Witness ==
  /\ \E d \in D : dispatches[d].outcome = "completed"
                  /\ Cardinality(Entries(dispatches[d], "from")) >= 2
  /\ \E d \in D : dispatches[d].outcome = "completed"
                  /\ Cardinality(Entries(dispatches[d], "to")) >= 2

\* C3: when an entering handler has been invoked, every leaving handler of the
\* dispatch has been invoked and every wait a leaving hook started, attached to
\* transition.promise or returned, has settled.
C3_LeavingBeforeEntering ==
  \A d \in D :
    LET r == dispatches[d]
    IN Entries(r, "to") # {} =>
         /\ \A k \in 1..Len(r.fromMatches) :
              RouteTable[r.fromMatches[k].route].hasFrom =>
                \E j \in Entries(r, "from") : r.log[j].route = r.fromMatches[k].route
         /\ \A j \in Entries(r, "from") : r.log[j].p # 0 => promises[r.log[j].p] # "pending"

\* C4 as stated: a dispatch none of whose hooks attached or returned a wait has
\* its callback invoked on a later turn, not inside the call of dispatch.
C4_CallbackDeferred ==
  \A d \in D :
    LET r == dispatches[d]
    IN (r.pc = "done" /\ ~Waited(r)) => ~r.cbInline

\* C4 amended: a dispatch none of whose hooks attached or returned a wait has
\* its callback invoked inside the call of dispatch, before it returns.
C4_CallbackInline ==
  \A d \in D :
    LET r == dispatches[d]
    IN (r.pc = "done" /\ ~Waited(r)) => r.cbInline

\* A dispatch with leaving and entering handlers, none of them waiting, completed.
C4_Witness ==
  \E d \in D :
    LET r == dispatches[d]
    IN /\ r.pc = "done" /\ ~Waited(r) /\ r.outcome = "completed"
       /\ Entries(r, "from") # {} /\ Entries(r, "to") # {}

\* C5: when a hook aborted with a reason, the callback received that reason as
\* abortReason, the dispatch stored no pending state, and with no commit since
\* it began the committed state is the one it began with.
C5_AbortReported ==
  \A d \in D :
    LET r == dispatches[d]
    IN \A j \in 1..Len(r.log) :
         (r.pc = "done" /\ r.log[j].eff = "abort") =>
           /\ r.cbAbort = r.log[j].reason
           /\ ~r.stored /\ storedBy # d /\ r.outcome # "completed"
           /\ ~r.flipped => state = r.startState

\* A leaving hook aborted with the redirect descriptor {to: "posts"} after a
\* commit, and the callback has received it.
C5_Witness ==
  \E d \in D : \E j \in Entries(dispatches[d], "from") :
    /\ dispatches[d].pc = "done" /\ dispatches[d].log[j].eff = "abort"
    /\ dispatches[d].log[j].reason \in Reasons
    /\ dispatches[d].cbAbort = dispatches[d].log[j].reason
    /\ dispatches[d].startState.kind = "resolved"
    /\ ~dispatches[d].flipped

\* C6: when a hook threw, or a wait a hook started was rejected, the callback of
\* the dispatch received the error, no handler was invoked after that hook and no
\* pending state was stored; the error of a rejected wait came on a later turn.
C6_ErrorReported ==
  \A d \in D :
    LET r == dispatches[d]
        threw == \E j \in 1..Len(r.log) : r.log[j].eff = "throw"
    IN r.pc = "done" =>
         /\ \A j \in 1..Len(r.log) :
              r.log[j].eff = "throw" =>
                (r.cbError = ThrownError /\ j = Len(r.log) /\ ~r.stored)
         /\ \A j \in 1..Len(r.log) :
              (r.log[j].p # 0 /\ promises[r.log[j].p] = "rejected" /\ ~threw /\ ~r.isAborted) =>
                (r.cbError = RejectedError /\ j = Len(r.log) /\ ~r.stored /\ ~r.cbInline)

\* C7: the committed state changes in a flipSwitch step only; a step in which a
\* dispatch calls its callback leaves it unchanged, and a successful one stores
\* the pending state.
C7_DispatchNeverCommits ==
  [][ /\ state' # state =>
           /\ state' = (IF nextState.kind = "unset" THEN UndefinedState ELSE nextState)
           /\ nextState' = UnsetState
      /\ \A d \in D :
           (dispatches[d].pc # "done" /\ dispatches'[d].pc = "done") =>
             /\ state' = state
             /\ dispatches'[d].outcome = "completed" => nextState'.kind = "resolved"
             /\ dispatches'[d].outcome # "completed" => nextState' = nextState
    ]_vars

\* A dispatch completed and stored its pending state after an earlier commit,
\* and the committed state is still the earlier one.
C7_Witness ==
  /\ state.kind = "resolved" /\ nextState.kind = "resolved"
  /\ storedBy # 0 /\ committedBy # 0 /\ storedBy # committedBy
  /\ state.path # nextState.path

\* C8: the Router always holds a defined committed state (the empty one at
\* first) and at most one pending state.
C8_CommittedDefined ==
  /\ state.kind \in {"empty", "resolved"}
  /\ nextState.kind \in {"unset", "resolved"}

\* C9: the pending state, and the committed state, is in all its fields the
\* state one dispatch computed from its own path and chains: the dispatch whose
\* completion stored it last.
FromOne(rs, r) ==
  /\ r.outcome = "completed"
  /\ rs.path = r.path
  /\ rs.query = (IF r.path.q = NoQuery THEN {} ELSE {<<r.path.q[1], r.path.q[2]>>})
  /\ rs.matches =
       SubSeq(r.currentMatches, 1, Len(r.currentMatches) - Len(r.fromMatches)) \o r.toMatches
  /\ rs.routes = [k \in 1..Len(rs.matches) |-> rs.matches[k].route]
  /\ rs.params = (IF Len(rs.matches) = 0 THEN NoParams ELSE rs.matches[Len(rs.matches)].params)

C9_NoMerge ==
  /\ nextState.kind = "resolved" => (storedBy \in D /\ FromOne(nextState, dispatches[storedBy]))
  /\ state.kind = "resolved" => (committedBy \in D /\ FromOne(state, dispatches[committedBy]))

\* Two dispatches for different paths overlapped with no commit since the first
\* began; the second completed first, and the pending state is the first one's.
C9_Witness ==
  /\ Len(dispatches) >= 2
  /\ dispatches[1].path # dispatches[2].path
  /\ dispatches[1].stored /\ dispatches[2].stored
  /\ ~dispatches[1].flipped /\ ~dispatches[2].flipped
  /\ dispatches[1].startState = dispatches[2].startState
  /\ storedBy = 1 /\ nextState.kind = "resolved"

\* C10: when the committed chain and the matched chain share a non-empty prefix
\* of equal matches, fromMatches is the rest of the committed chain and
\* toMatches the rest of the matched chain; when the committed chain is empty,
\* fromMatches is empty and toMatches is the matched chain.
CommonPrefix(A, B) ==
  CHOOSE n \in 0..Len(A) :
    /\ n <= Len(B)
    /\ \A k \in 1..n : A[k] = B[k]
    /\ (n < Len(A) /\ n < Len(B)) => A[n + 1] # B[n + 1]

C10_DiffIsSuffix ==
  \A d \in D :
    LET r == dispatches[d]
        A == r.currentMatches
        B == r.nextMatches
        n == CommonPrefix(A, B)
    IN /\ n >= 1 => (r.fromMatches = SubSeq(A, n + 1, Len(A)) /\
                     r.toMatches = SubSeq(B, n + 1, Len(B)))
       /\ Len(A) = 0 => (r.fromMatches = << >> /\ r.toMatches = B)

\* ------------------------------------------- further claims on the dispatch
\* C13: the callback of a dispatch is called with neither an error nor an
\* abortReason exactly when no hook of the dispatch aborted or errored and the
\* dispatch stored its pending state; after an abort, whatever its reason, and
\* after an error the arguments differ from those of a success.
C13_ArgsReflectOutcome ==
  \A d \in D :
    LET r == dispatches[d]
        plain == r.cbError = NoError /\ r.cbAbort = Unset
        aborted == \E j \in 1..Len(r.log) : r.log[j].eff = "abort"
        threw == \E j \in 1..Len(r.log) : r.log[j].eff = "throw"
    IN r.pc = "done" =>
         (plain <=> (~aborted /\ ~threw /\ r.outcome # "errored" /\ r.stored))

\* C14: a dispatch whose callback has run ended in exactly one of completed,
\* aborted and errored: the callback ran once, it did not receive both an error
\* and an abortReason, a completed dispatch received neither, and no handler was
\* invoked after the hook that aborted or threw.
C14_TerminalExclusive ==
  \A d \in D :
    LET r == dispatches[d]
    IN r.pc = "done" =>
         /\ r.cbCount = 1
         /\ r.outcome \in {"completed", "aborted", "errored"}
         /\ ~(r.cbError # NoError /\ r.cbAbort # Unset)
         /\ r.outcome = "completed" => (r.cbError = NoError /\ r.cbAbort = Unset)
         /\ \A j \in 1..Len(r.log) : r.log[j].eff \in {"abort", "throw"} => j = Len(r.log)

\* C15: in both phases a wait a hook attached to transition.promise is consumed
\* and cleared by the end of that hook, and no later handler of the dispatch is
\* invoked while that wait is pending.
C15_WaitDiscipline ==
  \A d \in D :
    LET r == dispatches[d]
    IN /\ r.promise = 0
       /\ \A j1, j2 \in 1..Len(r.log) :
            (j1 < j2 /\ r.log[j1].eff = "wait") => promises[r.log[j1].p] # "pending"

\* The pending state has the path of the dispatch that stored it, the routes of
\* its matches in chain order and the query parsed from the path.
PendingOf(r) ==
  /\ nextState.path = r.path
  /\ nextState.routes = [k \in 1..Len(nextState.matches) |-> nextState.matches[k].route]
  /\ nextState.query = (IF r.path.q = NoQuery THEN {} ELSE {<<r.path.q[1], r.path.q[2]>>})

\* C17 as stated: the pending state a successful dispatch of P stored has path P,
\* the routes of its matches, the query of P, and the params of the first,
\* outermost match of its chain (none when the chain is empty).
C17_ParamsOfOutermost ==
  nextState.kind = "resolved" =>
    /\ storedBy \in D
    /\ PendingOf(dispatches[storedBy])
    /\ nextState.params =
         (IF Len(nextState.matches) = 0 THEN NoParams ELSE nextState.matches[1].params)

\* C17 amended: the pending state a successful dispatch of P stored has path P,
\* the routes of its matches, the query of P, and the params of the last,
\* deepest match of its chain (none when the chain is empty).
C17_ParamsOfDeepest ==
  nextState.kind = "resolved" =>
    /\ storedBy \in D
    /\ PendingOf(dispatches[storedBy])
    /\ nextState.params =
         (IF Len(nextState.matches) = 0 THEN NoParams
          ELSE nextState.matches[Len(nextState.matches)].params)

\* A pending state with a query whose first match has no params and whose last
\* match has one.
C17_Witness ==
  /\ nextState.kind = "resolved"
  /\ nextState.query # {}
  /\ Len(nextState.matches) >= 2
  /\ nextState.matches[1].params["a"] = Absent
  /\ nextState.params["a"] = "1"

\* C18: the matches of the pending state are, position by position, the chain
\* match returned for the dispatch that stored it (the empty chain when match
\* returned null).
C18_PendingIsMatched ==
  nextState.kind = "resolved" =>
    /\ storedBy \in D
    /\ nextState.matches = dispatches[storedBy].nextMatches

\* The match the j-th handler invocation r logged was for.
MatchOfEntry(r, j) ==
  IF r.log[j].phase = "from"
  THEN r.fromMatches[Len(r.fromMatches) + 1 - r.log[j].k]
  ELSE r.toMatches[r.log[j].k]
In(chain, m) == \E k \in 1..Len(chain) : chain[k] = m

\* C19: in a step that commits chain Y over a defined committed chain X, the dispatch
\* that stored Y has invoked the leaving handler of every match of X with no
\* equal match in Y and the entering handler of every match of Y with no equal
\* match in X, for the handlers that have the hook.
C19_HookCoverage ==
  [][ (state' # state /\ state.kind # "undefined" /\ state'.kind = "resolved") =>
        LET X == state.matches
            Y == state'.matches
            r == dispatches[storedBy]
        IN /\ \A k \in 1..Len(X) :
                (RouteTable[X[k].route].hasFrom /\ ~In(Y, X[k])) =>
                  \E j \in Entries(r, "from") : MatchOfEntry(r, j) = X[k]
           /\ \A k \in 1..Len(Y) :
                (RouteTable[Y[k].route].hasTo /\ ~In(X, Y[k])) =>
                  \E j \in Entries(r, "to") : MatchOfEntry(r, j) = Y[k]
    ]_vars

\* C20: with every promise a hook created settled in the end, the callback of
\* every dispatch is called in the end, and at no time has it been called more
\* than once; a dispatch is done exactly when its callback has been called.
C20_CallbackOnce ==
  /\ \A d \in 1..MaxDispatches :
       (Len(dispatches) >= d) ~> (Len(dispatches) >= d /\ dispatches[d].pc = "done")
  /\ [](\A d \in D :
          /\ dispatches[d].cbCount <= 1
          /\ dispatches[d].pc = "done" <=> dispatches[d].cbCount = 1)

\* ------------------------------------------------------ claims on the matcher
\* The path matches the route's own pattern.
OwnMatches(route, segs) == extractParams(RouteTable[route].path, segs).ok

RECURSIVE SubtreeMatches(_, _)
\* The path matches something in the route's child subtree: a descendant's
\* pattern, or the pattern of the default or not-found route of the route or of
\* a descendant.
SubtreeMatches(route, segs) ==
  LET r == RouteTable[route]
  IN \/ \E k \in 1..Len(r.childRoutes) :
          OwnMatches(r.childRoutes[k], segs) \/ SubtreeMatches(r.childRoutes[k], segs)
     \/ (r.defaultRoute # NoRoute /\ OwnMatches(r.defaultRoute, segs))
     \/ (r.notFoundRoute # NoRoute /\ OwnMatches(r.notFoundRoute, segs))

Reaches(route, segs) == OwnMatches(route, segs) \/ SubtreeMatches(route, segs)

\* The routes a match below a match of route can be of.
Below(route) ==
  { RouteTable[route].childRoutes[k] : k \in 1..Len(RouteTable[route].childRoutes) }
    \cup ({RouteTable[route].defaultRoute, RouteTable[route].notFoundRoute} \ {NoRoute})

\* C11: when the path matches the own pattern of the route the search settles
\* on and also something in that route's child subtree, the chain returned goes
\* on below the route's match; it is not the singleton chain of the own pattern.
\* The same holds of every match within the chain.
C11_SubtreeWins ==
  matchOutput.called =>
    LET segs == matchInput.segs
        routes == matchInput.routes
        chain == matchOutput.chain
    IN /\ \A i \in 1..Len(routes) :
            ( /\ \A j \in 1..(i - 1) : ~Reaches(routes[j], segs)
              /\ OwnMatches(routes[i], segs)
              /\ SubtreeMatches(routes[i], segs) ) =>
                /\ matchOutput.found
                /\ Len(chain) >= 2
                /\ chain[1].route = routes[i]
                /\ chain[2].route \in Below(routes[i])
       /\ \A k \in 1..Len(chain) :
            (OwnMatches(chain[k].route, segs) /\ SubtreeMatches(chain[k].route, segs)) =>
              k < Len(chain)

\* The path matches the first route's own pattern and a child's pattern, and
\* the chain returned ends with the child's match.
C11_Witness ==
  /\ matchOutput.called /\ matchOutput.found
  /\ Len(matchInput.routes) >= 1
  /\ OwnMatches(matchInput.routes[1], matchInput.segs)
  /\ Len(matchOutput.chain) = 2
  /\ \E k \in 1..Len(RouteTable[matchInput.routes[1]].childRoutes) :
       /\ RouteTable[matchInput.routes[1]].childRoutes[k] = matchOutput.chain[2].route
       /\ OwnMatches(matchOutput.chain[2].route, matchInput.segs)

\* One level of the search, given what it returned: a sibling route that matches
\* by its subtree or its own pattern, the first such in declaration order, heads
\* the chain; with none, the default route's match is the chain if its pattern
\* matches; failing that the not-found route's; failing that the result is null.
FallbackMatches(route, segs) == route # NoRoute /\ OwnMatches(route, segs)
LevelInOrder(segs, routes, defaultRoute, notFoundRoute, found, chain) ==
  LET someRoute == \E i \in 1..Len(routes) : Reaches(routes[i], segs)
      first == CHOOSE i \in 1..Len(routes) :
                 Reaches(routes[i], segs) /\ \A j \in 1..(i - 1) : ~Reaches(routes[j], segs)
  IN IF someRoute
     THEN found /\ chain[1].route = routes[first]
     ELSE IF FallbackMatches(defaultRoute, segs)
     THEN found /\ chain = <<Match(defaultRoute,
                                   extractParams(RouteTable[defaultRoute].path, segs).params)>>
     ELSE IF FallbackMatches(notFoundRoute, segs)
     THEN found /\ chain = <<Match(notFoundRoute,
                                   extractParams(RouteTable[notFoundRoute].path, segs).params)>>
     ELSE ~found

\* C12: at the level findMatches is called with, and at the level below every
\* match of the chain that has a match below it, the default route is used only
\* when no sibling route matches by subtree or own pattern, the not-found route
\* only when the default route fails too, and null is returned only when all fail.
C12_FallbackOrder ==
  matchOutput.called =>
    LET segs == matchInput.segs
        chain == matchOutput.chain
    IN /\ LevelInOrder(segs, matchInput.routes, matchInput.defaultRoute,
                       matchInput.notFoundRoute, matchOutput.found, chain)
       /\ \A k \in 1..(Len(chain) - 1) :
            LevelInOrder(segs, RouteTable[chain[k].route].childRoutes,
                         RouteTable[chain[k].route].defaultRoute,
                         RouteTable[chain[k].route].notFoundRoute,
                         TRUE, SubSeq(chain, k + 1, Len(chain)))

\* No route of a non-empty routes list matches, the patterns of both fallbacks
\* match, and the chain returned is the default route's match.
C12_Witness ==
  /\ matchOutput.called /\ matchOutput.found
  /\ Len(matchInput.routes) >= 1
  /\ \A i \in 1..Len(matchInput.routes) : ~Reaches(matchInput.routes[i], matchInput.segs)
  /\ FallbackMatches(matchInput.defaultRoute, matchInput.segs)
  /\ FallbackMatches(matchInput.notFoundRoute, matchInput.segs)
  /\ matchInput.defaultRoute # matchInput.notFoundRoute
  /\ Len(matchOutput.chain) = 1
  /\ matchOutput.chain[1].route = matchInput.defaultRoute

\* The first route of a list that matches by its subtree or its own pattern.
FirstReaching(routes, segs) ==
  CHOOSE i \in 1..Len(routes) :
    Reaches(routes[i], segs) /\ \A j \in 1..(i - 1) : ~Reaches(routes[j], segs)
Declares(route, n) ==
  \E k \in 1..Len(RouteTable[route].paramNames) : RouteTable[route].paramNames[k] = n

\* C16: a chain match returned is ordered root first and leaf last: its first
\* match is of a route of the list or of a fallback, each further match of a
\* child or fallback of the route before it, and the last one is the match of
\* the pattern that matched the path; where a sibling route matches, the first
\* such in declaration order is the one in the chain; and the params of every
\* match but the last have exactly the route's paramNames as keys, each with
\* the value the last match's params give for that name.
C16_ChainShape ==
  (matchOutput.called /\ matchOutput.found) =>
    LET segs == matchInput.segs
        routes == matchInput.routes
        chain == matchOutput.chain
        leaf == chain[Len(chain)]
    IN /\ Len(chain) >= 1
       /\ \/ \E i \in 1..Len(routes) : chain[1].route = routes[i]
          \/ chain[1].route \in {matchInput.defaultRoute, matchInput.notFoundRoute} \ {NoRoute}
       /\ (\E i \in 1..Len(routes) : Reaches(routes[i], segs)) =>
            chain[1].route = routes[FirstReaching(routes, segs)]
       /\ \A k \in 1..(Len(chain) - 1) :
            LET children == RouteTable[chain[k].route].childRoutes
            IN /\ chain[k + 1].route \in Below(chain[k].route)
               /\ (\E i \in 1..Len(children) : Reaches(children[i], segs)) =>
                    chain[k + 1].route = children[FirstReaching(children, segs)]
               /\ \A n \in ParamNames :
                    IF Declares(chain[k].route, n)
                    THEN chain[k].params[n] = Get(leaf.params, n)
                    ELSE chain[k].params[n] = Absent
       /\ OwnMatches(leaf.route, segs)
       /\ leaf.params = extractParams(RouteTable[leaf.route].path, segs).params

\* The first route of the list does not match, the second gives a chain of four
\* matches, and the second match has the param the last one extracted.
C16_Witness ==
  /\ matchOutput.called /\ matchOutput.found
  /\ Len(matchInput.routes) = 2
  /\ ~Reaches(matchInput.routes[1], matchInput.segs)
  /\ Len(matchOutput.chain) = 4
  /\ matchOutput.chain[1].route = matchInput.routes[2]
  /\ matchOutput.chain[2].params["a"] = "1"
  /\ matchOutput.chain[3].params["a"] = Absent
  /\ matchOutput.chain[4].params["a"] = "1"
====
